---------------------------- MODULE Spec2Model ----------------------------
(***************************************************************************)
(* A model of the stork index builder:                                     *)
(*   - build()                          stork-index-v3/src/builder/mod.rs  *)
(*   - remove_surrounding_punctuation() stork-index-v3/src/builder/mod.rs  *)
(*   - read() of the URL data source    url_data_source_reader.rs          *)
(* The specifications share the variables; each leaves the variables of    *)
(* the other two functions at their idle values:                           *)
(*   Spec       one build() invocation                                     *)
(*   SpecStrip  remove_surrounding_punctuation, run twice in a row         *)
(*   FairStrip  SpecStrip with the fairness of sequential execution        *)
(*   SpecRead   one read() of the URL data source reader                   *)
(***************************************************************************)
EXTENDS Integers, Sequences, FiniteSets, TLC

VARIABLES
    \* ---- build(config) ----
    files,                  \* config.input.files
    break_on_file_error,    \* config.input.break_on_file_error
    pc,                     \* position of build()
    next_file,              \* position of the normalizer in config.input.files
    intermediate_entries,   \* Vec<NormalizedEntry>
    document_errors,        \* Vec<DocumentError>
    stems,                  \* HashMap<String, Vec<String>>
    containers,             \* HashMap<String, Container>
    called,                 \* the calls build() has made so far, in order
    result,                 \* which variant build() returned
    returned,               \* the Index handed to the caller: <<>> or <<index>>
    \* ---- remove_surrounding_punctuation(input) ----
    token,                  \* the token the first call is made on
    input,                  \* the argument of the running call
    chars,                  \* Vec<char>
    strip_pc,               \* position of remove_surrounding_punctuation
    pass,                   \* 1: the call on the token, 2: the call on the first result
    first_output,           \* what the first call returned
    output,                 \* what the running call returned
    \* ---- url_data_source_reader::read(url, config) ----
    feature,                \* is "build-v3-web-scraping" compiled in
    url,
    declared,               \* config.file.filetype
    network,                \* what the network answers to a GET of url
    read_pc,
    read_result

build_vars == <<files, break_on_file_error, pc, next_file, intermediate_entries,
                document_errors, stems, containers, called, result, returned>>
strip_vars == <<token, input, chars, strip_pc, pass, first_output, output>>
read_vars  == <<feature, url, declared, network, read_pc, read_result>>
vars == <<build_vars, strip_vars, read_vars>>

-----------------------------------------------------------------------------
(* Bounds *)

MaxFiles == 3
MaxLen == 4

\* the bounded sequences over S
SeqUpTo(S, n) == UNION {[1..k -> S] : k \in 0..n}

-----------------------------------------------------------------------------
(*                               build()                                   *)

\* The documents of the tests: a valid file, a file whose HTML selector is
\* missing, a file with empty contents.
FileKinds == {"valid", "missing_selector", "empty_contents"}

\* Normalizing one document: Ok(NormalizedEntry) or Err(cause).
NormalizeFile(kind) ==
    CASE kind = "valid" -> [ok |-> TRUE, cause |-> "none"]
      [] kind = "missing_selector" -> [ok |-> FALSE, cause |-> "SelectorNotPresent"]
      [] kind = "empty_contents" -> [ok |-> FALSE, cause |-> "EmptyWordList"]

NormalizedEntryOf(i) == [file |-> i, annotated_words |-> "words"]
DocumentErrorOf(i, cause) == [file |-> i, cause |-> cause]

\* Entry::from(&NormalizedEntry)
EntryFrom(ne) == [title |-> ne.file]

\* intermediate_entries.iter().map(Entry::from).collect()
EntriesFrom(ies) == [k \in 1..Len(ies) |-> EntryFrom(ies[k])]

\* the stem table and the containers, as functions of the entry set
StemsOf(ies) == {ies[k].file : k \in 1..Len(ies)}
ContainersOf(ies, st) == {<<s, "container">> : s \in st}

\* PassthroughConfig { .. }
PassthroughOf == "passthrough"

AssembleIndexDroppingErrors(entries, conts, errors) ==
    [entries |-> entries, containers |-> conts, config |-> PassthroughOf,
     errors |-> <<>>]

\* Index { entries, containers, config, errors: document_errors }
AssembleIndex(entries, conts, errors) ==
    [entries |-> entries, containers |-> conts, config |-> PassthroughOf,
     errors |-> errors]

ShouldBreakIgnoringFlag(flag, index) == index.errors # <<>>

ShouldBreakInverted(flag, index) == flag /\ index.errors = <<>>

\* config.input.break_on_file_error && !index.errors.is_empty()
ShouldBreak(flag, index) == flag /\ index.errors # <<>>

BuildResultBreakFirst(flag, ies, conts, errors) ==
    LET entries == EntriesFrom(ies)
        index == AssembleIndex(entries, conts, errors)
    IN  IF ShouldBreak(flag, index)
        THEN [result |-> "DocumentErrors", returned |-> <<index>>]
        ELSE IF entries = <<>>
        THEN [result |-> "NoValidFiles", returned |-> <<>>]
        ELSE [result |-> "Ok", returned |-> <<index>>]

\* lines 39-64 of build(): what it returns
BuildResult(flag, ies, conts, errors) ==
    LET entries == EntriesFrom(ies)
    IN  IF entries = <<>>
        THEN [result |-> "NoValidFiles", returned |-> <<>>]
        ELSE LET index == AssembleIndex(entries, conts, errors)
             IN  IF ShouldBreak(flag, index)
                 THEN [result |-> "DocumentErrors", returned |-> <<index>>]
                 ELSE [result |-> "Ok", returned |-> <<index>>]

InitBuild ==
    /\ files \in SeqUpTo(FileKinds, MaxFiles)
    /\ break_on_file_error \in BOOLEAN
    /\ pc = "start"
    /\ next_file = 1
    /\ intermediate_entries = <<>>
    /\ document_errors = <<>>
    /\ stems = {}
    /\ containers = {}
    /\ called = <<>>
    /\ result = "pending"
    /\ returned = <<>>

IdleBuild ==
    /\ files = <<>>
    /\ break_on_file_error = FALSE
    /\ pc = "idle"
    /\ next_file = 1
    /\ intermediate_entries = <<>>
    /\ document_errors = <<>>
    /\ stems = {}
    /\ containers = {}
    /\ called = <<>>
    /\ result = "pending"
    /\ returned = <<>>

\* Nudger::from(config).print(): advisory only
NudgerPrint ==
    /\ pc = "start"
    /\ pc' = "fill_intermediate_entries"
    /\ called' = Append(called, "Nudger")
    /\ UNCHANGED <<files, break_on_file_error, next_file, intermediate_entries,
                   document_errors, stems, containers, result, returned>>

\* fill_intermediate_entries: one document is normalized; a success is pushed
\* to intermediate_entries, a failure to document_errors, and the loop goes on.
NormalizeDocument ==
    /\ pc = "fill_intermediate_entries"
    /\ next_file <= Len(files)
    /\ LET r == NormalizeFile(files[next_file])
       IN  IF r.ok
           THEN /\ intermediate_entries' =
                       Append(intermediate_entries, NormalizedEntryOf(next_file))
                /\ UNCHANGED document_errors
           ELSE /\ document_errors' =
                       Append(document_errors, DocumentErrorOf(next_file, r.cause))
                /\ UNCHANGED intermediate_entries
    /\ next_file' = next_file + 1
    /\ called' = IF next_file = 1
                 THEN Append(called, "fill_intermediate_entries") ELSE called
    /\ UNCHANGED <<files, break_on_file_error, pc, stems, containers, result, returned>>

\* fill_intermediate_entries(..)? returns Ok(()) once every document was seen.
\* The function is described as collecting per-document failures and never
\* failing the build itself, so the Err path of the `?` is not taken.
NormalizeFinished ==
    /\ pc = "fill_intermediate_entries"
    /\ next_file > Len(files)
    /\ pc' = "fill_stems"
    /\ called' = IF next_file = 1
                 THEN Append(called, "fill_intermediate_entries") ELSE called
    /\ UNCHANGED <<files, break_on_file_error, next_file, intermediate_entries,
                   document_errors, stems, containers, result, returned>>

\* fill_stems(&intermediate_entries, &mut stems)
FillStems ==
    /\ pc = "fill_stems"
    /\ stems' = StemsOf(intermediate_entries)
    /\ called' = Append(called, "fill_stems")
    /\ pc' = "fill_containers"
    /\ UNCHANGED <<files, break_on_file_error, next_file, intermediate_entries,
                   document_errors, containers, result, returned>>

\* fill_containers(&config, &intermediate_entries, &stems, &mut containers)
FillContainers ==
    /\ pc = "fill_containers"
    /\ containers' = ContainersOf(intermediate_entries, stems)
    /\ called' = Append(called, "fill_containers")
    /\ pc' = "assemble"
    /\ UNCHANGED <<files, break_on_file_error, next_file, intermediate_entries,
                   document_errors, stems, result, returned>>

\* the rest of build(): entries, the NoValidFiles check, the index, the
\* break_on_file_error check, the return
Assemble ==
    /\ pc = "assemble"
    /\ LET r == BuildResult(break_on_file_error, intermediate_entries,
                            containers, document_errors)
       IN  /\ result' = r.result
           /\ returned' = r.returned
    /\ pc' = "done"
    /\ UNCHANGED <<files, break_on_file_error, next_file, intermediate_entries,
                   document_errors, stems, containers, called>>

-----------------------------------------------------------------------------
(*                    remove_surrounding_punctuation()                     *)

\* '.', '?', 'a' and the em dash U+2014 (punctuation, but not ASCII)
Alphabet == {46, 63, 97, 8212}

\* the 'a' of unwrap_or(&'a')
DefaultChar == 97

is_general_punctuation(c) ==
    \/ c \in 33..47 \/ c \in 58..64 \/ c \in 91..96 \/ c \in 123..126
    \/ c \in 8208..8231

\* char::is_ascii_punctuation
is_ascii_punctuation(c) ==
    \/ c \in 33..47 \/ c \in 58..64 \/ c \in 91..96 \/ c \in 123..126

first_or_punctuation(cs) == IF cs = <<>> THEN 46 ELSE cs[1]

\* chars.first().unwrap_or(&'a')
first_or(cs) == IF cs = <<>> THEN DefaultChar ELSE cs[1]

\* chars.last().unwrap_or(&'a')
last_or(cs) == IF cs = <<>> THEN DefaultChar ELSE cs[Len(cs)]

InitStrip ==
    /\ token \in SeqUpTo(Alphabet, MaxLen)
    /\ input = token
    /\ chars = <<>>
    /\ strip_pc = "call"
    /\ pass = 1
    /\ first_output = <<>>
    /\ output = <<>>

IdleStrip ==
    /\ token = <<>>
    /\ input = <<>>
    /\ chars = <<>>
    /\ strip_pc = "idle"
    /\ pass = 1
    /\ first_output = <<>>
    /\ output = <<>>

\* let mut chars: Vec<char> = input.chars().collect();
CollectChars ==
    /\ strip_pc = "call"
    /\ chars' = input
    /\ strip_pc' = "front"
    /\ UNCHANGED <<token, input, pass, first_output, output>>

FrontOnce ==
    /\ strip_pc = "front"
    /\ IF is_ascii_punctuation(first_or(chars))
       THEN IF chars = <<>>
            THEN strip_pc' = "panic" /\ UNCHANGED chars
            ELSE chars' = Tail(chars) /\ strip_pc' = "back"
       ELSE strip_pc' = "back" /\ UNCHANGED chars
    /\ UNCHANGED <<token, input, pass, first_output, output>>

\* while chars.first().unwrap_or(&'a').is_ascii_punctuation() { chars.remove(0); }
\* Vec::remove(0) panics on an empty vector.
FrontLoop ==
    /\ strip_pc = "front"
    /\ IF is_ascii_punctuation(first_or(chars))
       THEN IF chars = <<>>
            THEN strip_pc' = "panic" /\ UNCHANGED chars
            ELSE chars' = Tail(chars) /\ UNCHANGED strip_pc
       ELSE strip_pc' = "back" /\ UNCHANGED chars
    /\ UNCHANGED <<token, input, pass, first_output, output>>

\* while chars.last().unwrap_or(&'a').is_ascii_punctuation() { chars.pop(); }
\* Vec::pop() of an empty vector is None and leaves it empty.
BackLoop ==
    /\ strip_pc = "back"
    /\ IF is_ascii_punctuation(last_or(chars))
       THEN /\ chars' = IF chars = <<>> THEN <<>> ELSE SubSeq(chars, 1, Len(chars) - 1)
            /\ UNCHANGED strip_pc
       ELSE strip_pc' = "collect" /\ UNCHANGED chars
    /\ UNCHANGED <<token, input, pass, first_output, output>>

\* chars.into_iter().collect()
CollectString ==
    /\ strip_pc = "collect"
    /\ output' = chars
    /\ strip_pc' = "done"
    /\ UNCHANGED <<token, input, chars, pass, first_output>>

\* the function is applied to its own result
Restrip ==
    /\ strip_pc = "done"
    /\ pass = 1
    /\ first_output' = output
    /\ input' = output
    /\ pass' = 2
    /\ strip_pc' = "call"
    /\ UNCHANGED <<token, chars, output>>

-----------------------------------------------------------------------------
(*                     url_data_source_reader::read()                      *)

Urls == {"https://example.com/a", "https://example.com/b"}

\* Option<Filetype> of the reader configuration
DeclaredFiletypes == {"None", "PlainText", "HTML"}

\* The Content-Type header of the response: absent, not visible ASCII
\* (to_str fails), not a MIME type (parse fails), or a MIME type.
Headers ==
    {[state |-> "missing", type |-> "", subtype |-> ""],
     [state |-> "opaque", type |-> "", subtype |-> ""],
     [state |-> "malformed", type |-> "", subtype |-> ""],
     [state |-> "mime", type |-> "text", subtype |-> "plain"],
     [state |-> "mime", type |-> "text", subtype |-> "html"],
     [state |-> "mime", type |-> "text", subtype |-> "css"],
     [state |-> "mime", type |-> "application", subtype |-> "json"]}

Networks ==
    [transport : {"ok", "failed"}, status : {200, 404, 503},
     header : Headers, body : {"", "This is contents"}]

Ok(buffer, filetype) ==
    [ok |-> TRUE, error |-> "none", code |-> 0, buffer |-> buffer, filetype |-> filetype]
Err(error, code) ==
    [ok |-> FALSE, error |-> error, code |-> code, buffer |-> "", filetype |-> "None"]

\* fn filetype_from_mime(mime: &Mime) -> Option<Filetype>
filetype_from_mime(h) ==
    IF h.type = "text" /\ h.subtype = "plain" THEN "PlainText"
    ELSE IF h.type = "text" /\ h.subtype = "html" THEN "HTML"
    ELSE "None"

\* Option::or
OptionOr(a, b) == IF a # "None" THEN a ELSE b

\* Response::error_for_status_ref: an error carrying the status for 4xx and 5xx
error_for_status_ref(resp) ==
    IF resp.status >= 400 /\ resp.status <= 599 THEN <<resp.status>> ELSE <<>>

read_disabled_noop(u, config) == Ok("", "None")

\* #[cfg(not(feature = "build-v3-web-scraping"))] read
read_disabled(u, config) == Err("FeatureNotAvailable", 0)

\* #[cfg(feature = "build-v3-web-scraping")] read
read_enabled(u, config) ==
    IF network.transport # "ok" THEN Err("WebPageNotFetched", 0)
    ELSE LET e == error_for_status_ref(network)
         IN  IF e # <<>> THEN Err("WebPageErrorfulStatusCode", e[1])
             ELSE IF network.header.state # "mime" THEN Err("UnknownContentType", 0)
             ELSE Ok(network.body, OptionOr(config, filetype_from_mime(network.header)))

InitRead ==
    /\ feature \in BOOLEAN
    /\ url \in Urls
    /\ declared \in DeclaredFiletypes
    /\ network \in Networks
    /\ read_pc = "call"
    /\ read_result = Err("none", 0)

IdleRead ==
    /\ feature = FALSE
    /\ url = ""
    /\ declared = "None"
    /\ network = [transport |-> "failed", status |-> 200,
                  header |-> [state |-> "missing", type |-> "", subtype |-> ""],
                  body |-> ""]
    /\ read_pc = "idle"
    /\ read_result = Err("none", 0)

ReadWithoutWebScraping ==
    /\ read_pc = "call"
    /\ ~feature
    /\ read_result' = read_disabled(url, declared)
    /\ read_pc' = "done"
    /\ UNCHANGED <<feature, url, declared, network>>

ReadWithWebScraping ==
    /\ read_pc = "call"
    /\ feature
    /\ read_result' = read_enabled(url, declared)
    /\ read_pc' = "done"
    /\ UNCHANGED <<feature, url, declared, network>>

-----------------------------------------------------------------------------
(*                          The specifications                             *)

Init == InitBuild /\ IdleStrip /\ IdleRead

Next ==
    \/ NudgerPrint /\ UNCHANGED <<strip_vars, read_vars>>
    \/ NormalizeDocument /\ UNCHANGED <<strip_vars, read_vars>>
    \/ NormalizeFinished /\ UNCHANGED <<strip_vars, read_vars>>
    \/ FillStems /\ UNCHANGED <<strip_vars, read_vars>>
    \/ FillContainers /\ UNCHANGED <<strip_vars, read_vars>>
    \/ Assemble /\ UNCHANGED <<strip_vars, read_vars>>

Spec == Init /\ [][Next]_vars

StripInit == IdleBuild /\ InitStrip /\ IdleRead

StripNext ==
    \/ CollectChars /\ UNCHANGED <<build_vars, read_vars>>
    \/ FrontLoop /\ UNCHANGED <<build_vars, read_vars>>
    \/ BackLoop /\ UNCHANGED <<build_vars, read_vars>>
    \/ CollectString /\ UNCHANGED <<build_vars, read_vars>>
    \/ Restrip /\ UNCHANGED <<build_vars, read_vars>>

SpecStrip == StripInit /\ [][StripNext]_vars

\* a call runs to its return: nothing preempts a sequential function
FairStrip == StripInit /\ [][StripNext]_vars /\ WF_vars(StripNext)

ReadInit == IdleBuild /\ IdleStrip /\ InitRead

ReadNext ==
    \/ ReadWithoutWebScraping /\ UNCHANGED <<build_vars, strip_vars>>
    \/ ReadWithWebScraping /\ UNCHANGED <<build_vars, strip_vars>>

SpecRead == ReadInit /\ [][ReadNext]_vars

-----------------------------------------------------------------------------
(*                         Properties of build()                           *)

ValidFiles == {i \in 1..Len(files) : NormalizeFile(files[i]).ok}
FailingFiles == {i \in 1..Len(files) : ~NormalizeFile(files[i]).ok}

\* the failing documents, in configuration order, as DocumentErrors
ExpectedErrors ==
    LET idx == SelectSeq([k \in 1..Len(files) |-> k], LAMBDA k : k \in FailingFiles)
    IN  [j \in 1..Len(idx) |-> DocumentErrorOf(idx[j], NormalizeFile(files[idx[j]]).cause)]

\* the failing documents among the first n, as DocumentErrors
ExpectedErrorsUpTo(n) ==
    LET idx == SelectSeq([k \in 1..n |-> k], LAMBDA k : k \in FailingFiles)
    IN  [j \in 1..Len(idx) |-> DocumentErrorOf(idx[j], NormalizeFile(files[idx[j]]).cause)]

IsPrefix(s, t) == Len(s) <= Len(t) /\ SubSeq(t, 1, Len(s)) = s

\* what a build over a mixed document list hands back as Ok(index)
PartialFailureOutcome ==
    /\ result = "Ok"
    /\ Len(returned) = 1
    /\ Len(returned[1].errors) = Cardinality(FailingFiles)
    /\ Len(returned[1].entries) = Cardinality(ValidFiles)
    /\ \A i \in ValidFiles : \E k \in 1..Len(returned[1].entries) :
           returned[1].entries[k].title = i

\* C1 as stated: for every document list with at least one document that
\* normalizes and at least one that fails, build returns Ok(index) with one
\* error per failing document and one entry per succeeding document.
C1_AsStated ==
    (pc = "done" /\ ValidFiles # {} /\ FailingFiles # {}) => PartialFailureOutcome

\* C1 amended: the same, when break_on_file_error is disabled.
C1_PartialFailureTolerance ==
    (pc = "done" /\ ~break_on_file_error /\ ValidFiles # {} /\ FailingFiles # {})
        => PartialFailureOutcome

\* a failing document precedes a valid one, and the valid one is indexed
C1_Witness ==
    /\ pc = "done"
    /\ ~break_on_file_error
    /\ Len(files) = 3
    /\ files[1] = "missing_selector" /\ files[2] = "valid" /\ files[3] = "empty_contents"
    /\ result = "Ok"
    /\ Len(returned[1].entries) = 1
    /\ Len(returned[1].errors) = 2

CarriesEveryValidEntry ==
    /\ result = "DocumentErrors"
    /\ Len(returned) = 1
    /\ Len(returned[1].entries) = Cardinality(ValidFiles)
    /\ \A i \in ValidFiles : \E k \in 1..Len(returned[1].entries) :
           returned[1].entries[k].title = i

\* C3 as stated: whenever break_on_file_error is enabled and at least one
\* document fails, build returns Err(DocumentErrors(index)) and the index has
\* one entry for every successfully normalized document.
C3_AsStated ==
    (pc = "done" /\ break_on_file_error /\ FailingFiles # {}) => CarriesEveryValidEntry

\* C3 amended: the same, when at least one document normalizes successfully.
C3_FailFast ==
    (pc = "done" /\ break_on_file_error /\ FailingFiles # {} /\ ValidFiles # {})
        => CarriesEveryValidEntry

C3_Witness ==
    /\ pc = "done"
    /\ break_on_file_error
    /\ Cardinality(FailingFiles) = 1
    /\ Cardinality(ValidFiles) = 2
    /\ result = "DocumentErrors"
    /\ Len(returned[1].entries) = 2

\* C4: whenever build hands an Index to the caller (Ok or DocumentErrors),
\* index.errors holds one DocumentError for every failing document; during
\* the build errors are only appended, and the accumulated errors are always
\* those of the documents processed so far.
C4_ErrorsComplete ==
    /\ [](returned # <<>> => returned[1].errors = ExpectedErrors)
    /\ [](pc # "idle" => document_errors = ExpectedErrorsUpTo(next_file - 1))
    /\ [][IsPrefix(document_errors, document_errors')]_vars

C4_Witness ==
    /\ pc = "done"
    /\ returned # <<>>
    /\ Len(returned[1].errors) = 2
    /\ returned[1].errors[1].cause = "EmptyWordList"
    /\ returned[1].errors[2].cause = "SelectorNotPresent"

\* C8: fill_stems and fill_containers are called only after normalization
\* has finished with a non-empty entry set; when every document failed the
\* build ends in NoValidFiles without having called either.
C8_StagesAsStated ==
    /\ (\E k \in 1..Len(called) : called[k] \in {"fill_stems", "fill_containers"})
           => (next_file > Len(files) /\ intermediate_entries # <<>>)
    /\ result = "NoValidFiles"
           => (\A k \in 1..Len(called) : called[k] \notin {"fill_stems", "fill_containers"})

-----------------------------------------------------------------------------
(*            Properties of remove_surrounding_punctuation()               *)

\* ASCII punctuation: printable ASCII that is neither a space, a digit nor a letter
AsciiPunctuation ==
    {c \in 33..126 : c \notin 48..57 /\ c \notin 65..90 /\ c \notin 97..122}

SetMin(S) == CHOOSE x \in S : \A y \in S : x <= y
SetMax(S) == CHOOSE x \in S : \A y \in S : x >= y

\* the reference: from the first to the last character that is not ASCII punctuation
TwoPointerScan(t) ==
    LET keep == {k \in 1..Len(t) : t[k] \notin AsciiPunctuation}
    IN  IF keep = {} THEN <<>> ELSE SubSeq(t, SetMin(keep), SetMax(keep))

AllAsciiPunctuation(t) == \A k \in 1..Len(t) : t[k] \in AsciiPunctuation

\* C6: the function never panics, every call returns, and on the empty token
\* and on a token of ASCII punctuation only it returns the empty string.
C6_Terminates ==
    /\ [](strip_pc # "panic")
    /\ (strip_pc = "call") ~> (strip_pc = "done")
    /\ []((strip_pc = "done" /\ AllAsciiPunctuation(input)) => output = <<>>)

C6_Witness ==
    /\ strip_pc = "done"
    /\ pass = 1
    /\ Len(input) >= 2
    /\ AllAsciiPunctuation(input)
    /\ output = <<>>

\* C7: the function is idempotent: applied to its own result it returns it.
C7_Idempotent ==
    (strip_pc = "done" /\ pass = 2) => (input = first_output /\ output = first_output)

C7_Witness ==
    /\ strip_pc = "done"
    /\ pass = 2
    /\ output # <<>>
    /\ Len(output) < Len(token)
    /\ \E k \in 2..(Len(output) - 1) : output[k] \in AsciiPunctuation

\* C9: the function returns what the two-pointer scan returns: the characters
\* from the first to the last one that is not ASCII punctuation, interior
\* punctuation and non-ASCII punctuation at the ends included.
C9_EqualsTwoPointerScan ==
    strip_pc = "done" => output = TwoPointerScan(input)

C9_Witness ==
    /\ strip_pc = "done"
    /\ pass = 1
    /\ input = <<46, 8212, 63, 97>>
    /\ output = <<8212, 63, 97>>

-----------------------------------------------------------------------------
(*                 Properties of url_data_source_reader::read()            *)

\* C5: without web scraping compiled in, read returns
\* Err(FeatureNotAvailable) for every URL and every reader configuration.
C5_FeatureNotAvailable ==
    (read_pc = "done" /\ ~feature) => read_result = Err("FeatureNotAvailable", 0)

\* a page that the enabled reader would have read
C5_Witness ==
    /\ read_pc = "done"
    /\ ~feature
    /\ network.transport = "ok"
    /\ network.status = 200
    /\ network.header.subtype = "html"
    /\ declared = "HTML"
    /\ ~read_result.ok

\* the response gives no content type the reader knows
Unresolvable(h) ==
    \/ h.state # "mime"
    \/ ~(h.type = "text" /\ h.subtype \in {"plain", "html"})

\* C10: with web scraping enabled, read fails with UnknownContentType when
\* the content type is neither declared nor resolvable from the response, so
\* an Ok ReadResult carries a filetype; a transport failure gives
\* WebPageNotFetched and an error status WebPageErrorfulStatusCode(status).
C10_ReaderErrorsAsStated ==
    (read_pc = "done" /\ feature) =>
        /\ network.transport # "ok" => read_result = Err("WebPageNotFetched", 0)
        /\ (network.transport = "ok" /\ network.status >= 400)
               => read_result = Err("WebPageErrorfulStatusCode", network.status)
        /\ (network.transport = "ok" /\ network.status < 400
               /\ declared = "None" /\ Unresolvable(network.header))
               => read_result = Err("UnknownContentType", 0)
        /\ read_result.ok => read_result.filetype # "None"

=============================================================================
